---------------------------- MODULE Spec2Model ----------------------------
(***************************************************************************)
(* A model of the tutorial notebooks of ICTP_EQ_tutorials:                 *)
(*   single asperity  (src/unnamed/part_000)                               *)
(*   double asperity  (src/QDYN/2_double_asperity.ipynb)                   *)
(*   CNS spring-block (src/unnamed/part_001)                               *)
(*   MNIST classifier (src/ML/1_mnist_basic.ipynb)                         *)
(* Each notebook is a list of statements executed top to bottom by one     *)
(* kernel.  The pyqdyn wrapper (p.settings, p.render_mesh, p.write_input,  *)
(* p.run, p.read_output) and the solver are not part of the repository;    *)
(* their effect is modelled from the notebooks' own description of them.   *)
(*                                                                         *)
(* Numbers.  Python floats are modelled by exact rationals [n, d] in       *)
(* lowest terms.  Where the code compares two floats whose exact values    *)
(* are closer than the rounding of the arithmetic, rounding decides the    *)
(* outcome, and the model leaves it open.                                  *)
(* exp() is evaluated in fixed point with FxOne steps per unit.            *)
(* Units: pressures (MU, SIGMA, TAU) are in MPa, the CNS kinetic           *)
(* parameter A is in 1e-10, everything else is SI.                         *)
(***************************************************************************)
EXTENDS Integers, Sequences, FiniteSets, TLC

(***************************************************************************)
(* Bounds of the model.                                                    *)
(***************************************************************************)
\* the mesh-size expression is evaluated for resolution 1..MaxResolution
MaxResolution == 7
\* the size ratio f ranges over 0/FDen, 1/FDen, ..., FDen/FDen; the grid
\* holds the notebook's f = 1/2 and f = 4/11, which puts a mesh node on an
\* asperity edge
FDen == 22
\* the records a run of the solver leaves in each of its output files
MaxRecords == 2
\* the double-asperity notebook is executed again, with f replaced by
\* 1 - f, at most MaxVary times
MaxVary == 1
\* the configuration cell is executed again, unedited, at most MaxRerun times
MaxRerun == 1

(***************************************************************************)
(* Rational arithmetic standing for Python's float arithmetic.             *)
(***************************************************************************)
RECURSIVE GCD(_, _)
GCD(a, b) == IF b = 0 THEN a ELSE GCD(b, a % b)

Abs(a) == IF a < 0 THEN -a ELSE a

Rat(n, d) ==
  LET s == IF d < 0 THEN -1 ELSE 1
      g == GCD(Abs(n), Abs(d))
  IN  [n |-> (s * n) \div g, d |-> (s * d) \div g]

\* a name that has not been assigned
Unset == [n |-> 0, d |-> 0]

R(i) == [n |-> i, d |-> 1]

RAdd(a, b) == Rat(a.n * b.d + b.n * a.d, a.d * b.d)
RNeg(a) == [n |-> -a.n, d |-> a.d]
RSub(a, b) == RAdd(a, RNeg(b))
RMul(a, b) ==
  LET g1 == GCD(Abs(a.n), b.d)
      g2 == GCD(Abs(b.n), a.d)
  IN  [n |-> (a.n \div g1) * (b.n \div g2), d |-> (a.d \div g2) * (b.d \div g1)]
RDiv(a, b) == RMul(a, Rat(b.d, b.n))
RLt(a, b) == a.n * b.d < b.n * a.d
RLe(a, b) == a.n * b.d <= b.n * a.d

RECURSIVE Pow2(_)
Pow2(k) == IF k = 0 THEN 1 ELSE 2 * Pow2(k - 1)


(***************************************************************************)
(* The notebooks as statement lists.  A tag names one statement or one     *)
(* commented block of statements; the kernel executes them in order.       *)
(***************************************************************************)
Notebooks == {"single", "double", "cns"}

ProgRSF ==
  << "instantiate", "predefine", "global", "rsf_defaults", "length_scales",
     "mesh_coords", "mesh_size", "settings", "render_mesh", "override",
     "write_input", "w10", "plot_mesh", "run", "read_output", "plot_ot",
     "plot_ox", "plot_anim" >>

\* the second run cell calling p.run before p.write_input
ProgCNS_RunBeforeWrite ==
  << "instantiate", "global", "cns_params", "settings", "render_mesh",
     "write_input", "w10", "run", "read_output", "head", "plot_ot",
     "update_H", "settings", "render_mesh", "run", "write_input",
     "read_output", "plot_ot" >>

\* the second run cell calling p.run twice
ProgCNS_TwoRuns ==
  << "instantiate", "global", "cns_params", "settings", "render_mesh",
     "write_input", "w10", "run", "read_output", "head", "plot_ot",
     "update_H", "settings", "render_mesh", "write_input", "run", "run",
     "read_output", "plot_ot" >>

ProgCNS ==
  << "instantiate", "global", "cns_params", "settings", "render_mesh",
     "write_input", "w10", "run", "read_output", "head", "plot_ot",
     "update_H", "settings", "render_mesh", "write_input", "run",
     "read_output", "plot_ot" >>

Prog(n) == IF n = "cns" THEN ProgCNS ELSE ProgRSF

(***************************************************************************)
(* The settings dictionary of the wrapper: global keys and one nested      *)
(* dictionary per friction model.                                          *)
(***************************************************************************)
GlobalKeys ==
  {"MESHDIM", "FINITE", "TMAX", "NTOUT", "NXOUT", "V_PL", "MU", "W", "SIGMA",
   "ACC", "SOLVER", "VS", "N", "L", "IC"}
RSFKeys == {"A", "B", "DC", "V_SS", "TH_0"}
CNSKeys == {"H", "PHI_C", "A", "N", "THICKNESS", "TAU", "PHI_INI"}

DefaultSetDict ==
  [G |-> [k \in GlobalKeys |-> Unset],
   FRICTION_MODEL |-> "RSF",
   SET_DICT_RSF |-> [k \in RSFKeys |-> Unset],
   SET_DICT_CNS |-> [k \in CNSKeys |-> Unset]]

NoArray == [i \in {} |-> Unset]
NoMask == [i \in {} |-> FALSE]
NoMesh == [k \in {} |-> NoArray]
NoEnv ==
  [t_yr |-> Unset, f |-> Unset, Lasp |-> Unset, L |-> Unset, ab_ratio |-> Unset,
   cab_ratio |-> Unset, resolution |-> Unset, Lb |-> Unset, Lc |-> Unset,
   L1 |-> Unset, L2 |-> Unset, p1 |-> Unset, p2 |-> Unset]
NoFile == [run |-> 0, nt |-> 0]
NoTable(kind) == [kind |-> kind, run |-> 0, nt |-> 0]
NoInput == [set |-> DefaultSetDict, mesh |-> NoMesh, written |-> FALSE]
NoCfg ==
  [L |-> Unset, Lasp |-> Unset, N |-> 0, set_dict |-> DefaultSetDict,
   A |-> NoArray]
NoImage == [shape |-> << >>, dtype |-> "none", px |-> Unset]
NoSummary == [layers |-> << >>, total |-> 0]
NoDataset == [train |-> NoImage, test |-> NoImage]

VARIABLES
  nb,         \* the notebook being executed
  pc,         \* index in Prog(nb) of the next statement
  env,        \* the scalar Python names of the configuration cell
  N,          \* the Python name N (0: not assigned)
  x,          \* the coordinate array x
  asp1, asp2, \* the boolean masks of the double-asperity notebook
  set_dict,   \* the Python name set_dict: the dictionary the notebook fills
  p_set,      \* p.set_dict, the dictionary the wrapper holds: the defaults
              \* of a fresh qdyn(), and from set_dict = p.set_dict on the
              \* dictionary the name set_dict is bound to
  mesh_dict,  \* p.mesh_dict: one array per friction parameter
  W10_bash,   \* p.W10_bash
  qdyn_in,    \* the input file qdyn.in
  alive,      \* number of solver processes running
  launches,   \* number of solver processes started so far
  disk,       \* the solver's output files
  ot, ox,     \* the tables p.ot and p.ox
  log,        \* wrapper calls and plots since the last p.settings
  prevF,      \* f of the previous execution of the configuration cell
  prevA,      \* mesh_dict["A"] of the previous execution
  varied,     \* number of re-executions with f replaced by 1 - f
  reruns,     \* number of unedited re-executions of the configuration cell
  prevCfg,    \* L, N, set_dict and A at the end of the previous execution
  maskF       \* the f with which the masks asp1 and asp2 were computed

\* The MNIST notebook runs in a kernel of its own.
VARIABLES
  cell,         \* index in ProgML of the next cell
  mnist,        \* the dataset as keras.datasets.mnist provides it
  train_images, \* the Python name train_images
  test_images,  \* the Python name test_images
  model,        \* the Python name model: the layers and their sizes
  summary,      \* what model.summary() printed
  epochs,       \* epochs the current model was trained for
  predictions   \* the class np.argmax finds for the sample test image

mlvars ==
  << cell, mnist, train_images, test_images, model, summary, epochs,
     predictions >>

vars ==
  << nb, pc, env, N, x, asp1, asp2, set_dict, p_set, mesh_dict, W10_bash,
     qdyn_in, alive, launches, disk, ot, ox, log, prevF, prevA,
     varied, reruns, prevCfg, maskF >>

\* the next statement is tag
At(tag) == pc \in 1..Len(Prog(nb)) /\ Prog(nb)[pc] = tag

\* the names of a kernel in which no statement has been executed
FreshKernel ==
  /\ env = NoEnv
  /\ N = 0
  /\ x = NoArray
  /\ asp1 = NoMask
  /\ asp2 = NoMask
  /\ set_dict = DefaultSetDict
  /\ p_set = DefaultSetDict
  /\ mesh_dict = NoMesh
  /\ W10_bash = "unset"
  /\ qdyn_in = NoInput
  /\ alive = 0
  /\ launches = 0
  /\ disk = NoFile
  /\ ot = NoTable("ot")
  /\ ox = NoTable("ox")
  /\ log = << >>
  /\ prevF = Unset
  /\ prevA = NoArray
  /\ varied = 0
  /\ reruns = 0
  /\ prevCfg = NoCfg
  /\ maskF = Unset

\* the MNIST kernel has not been started
NoKernelML ==
  /\ cell = 0
  /\ mnist = NoDataset
  /\ train_images = NoImage
  /\ test_images = NoImage
  /\ model = << >>
  /\ summary = NoSummary
  /\ epochs = 0
  /\ predictions = -1

Init ==
  /\ nb \in Notebooks
  /\ pc = 1
  /\ FreshKernel
  /\ NoKernelML

(***************************************************************************)
(* p = qdyn(): a fresh wrapper object with the default settings.  Only the *)
(* name p is rebound: the name set_dict keeps the dictionary of the        *)
(* execution before until set_dict = p.set_dict.                           *)
(***************************************************************************)
Instantiate ==
  /\ At("instantiate")
  /\ p_set' = DefaultSetDict
  /\ mesh_dict' = NoMesh
  /\ W10_bash' = "unset"
  /\ ot' = NoTable("ot")
  /\ ox' = NoTable("ox")
  /\ log' = << >>
  /\ pc' = pc + 1
  /\ UNCHANGED << reruns, prevCfg, maskF >>
  /\ UNCHANGED mlvars
  /\ UNCHANGED << nb, env, N, x, asp1, asp2, set_dict, qdyn_in, alive,
                  launches, disk, prevF, prevA, varied >>

(***************************************************************************)
(* "Predefine parameters".  f is the value the exercise of the             *)
(* double-asperity notebook varies; the other names keep the notebooks'    *)
(* literals.                                                               *)
(***************************************************************************)
\* the f of this execution: any grid value or the 0.4 and 0.6 of the
\* notebook's text the first time, 1 - f of the previous execution when the
\* exercise is done, the same f when the cell is executed again unedited
FChoices ==
  IF varied > 0 THEN {RSub(R(1), prevF)}
  ELSE IF reruns > 0 THEN {env.f}
  ELSE {Rat(k, FDen) : k \in 0..FDen} \cup {Rat(4, 10), Rat(6, 10)}

PredefineSA ==
  /\ nb = "single" /\ At("predefine")
  /\ env' = [env EXCEPT !.t_yr = R(3600 * 24 * 365),
                         !.Lasp = R(7),
                         !.L = R(5),
                         !.ab_ratio = Rat(8, 10),
                         !.cab_ratio = RSub(R(1), Rat(8, 10)),
                         !.resolution = R(7)]
  /\ pc' = pc + 1
  /\ UNCHANGED << reruns, prevCfg, maskF >>
  /\ UNCHANGED mlvars
  /\ UNCHANGED << nb, N, x, asp1, asp2, set_dict, p_set, mesh_dict, W10_bash,
                  qdyn_in, alive, launches, disk, ot, ox, log,
                  prevF, prevA, varied >>

\* L = 15 assigned once, in a cell that is not executed again
PredefineDA_KeepL ==
  /\ nb = "double" /\ At("predefine")
  /\ \E fv \in FChoices :
       env' = [env EXCEPT !.t_yr = R(3600 * 24 * 365),
                            !.f = fv,
                            !.L = IF @ = Unset THEN R(15) ELSE @,
                            !.ab_ratio = Rat(8, 10),
                            !.cab_ratio = RSub(R(1), Rat(8, 10)),
                            !.resolution = R(7)]
  /\ pc' = pc + 1
  /\ UNCHANGED << reruns, prevCfg, maskF >>
  /\ UNCHANGED mlvars
  /\ UNCHANGED << nb, N, x, asp1, asp2, set_dict, p_set, mesh_dict, W10_bash,
                  qdyn_in, alive, launches, disk, ot, ox, log,
                  prevF, prevA, varied >>

PredefineDA ==
  /\ nb = "double" /\ At("predefine")
  /\ \E fv \in FChoices :
       env' = [env EXCEPT !.t_yr = R(3600 * 24 * 365),
                            !.f = fv,
                            !.L = R(15),
                            !.ab_ratio = Rat(8, 10),
                            !.cab_ratio = RSub(R(1), Rat(8, 10)),
                            !.resolution = R(7)]
  /\ pc' = pc + 1
  /\ UNCHANGED << reruns, prevCfg, maskF >>
  /\ UNCHANGED mlvars
  /\ UNCHANGED << nb, N, x, asp1, asp2, set_dict, p_set, mesh_dict, W10_bash,
                  qdyn_in, alive, launches, disk, ot, ox, log,
                  prevF, prevA, varied >>

(***************************************************************************)
(* "Global simulation parameters".                                         *)
(***************************************************************************)
GlobalValues(n, e) ==
  IF n = "single" THEN
    [k \in {"MESHDIM", "FINITE", "TMAX", "NTOUT", "NXOUT", "V_PL", "MU", "W",
            "SIGMA", "ACC", "SOLVER"} |->
       CASE k = "MESHDIM" -> R(1)
         [] k = "FINITE" -> R(0)
         [] k = "TMAX" -> RMul(R(15), e.t_yr)
         [] k = "NTOUT" -> R(100)
         [] k = "NXOUT" -> R(2)
         [] k = "V_PL" -> Rat(1, 1000000000)
         [] k = "MU" -> R(30000)
         [] k = "W" -> R(50000)
         [] k = "SIGMA" -> R(100)
         [] k = "ACC" -> Rat(1, 10000000)
         [] k = "SOLVER" -> R(2)]
  ELSE IF n = "double" THEN
    [k \in {"MESHDIM", "FINITE", "TMAX", "NTOUT", "NXOUT", "V_PL", "MU",
            "SIGMA", "ACC", "SOLVER"} |->
       CASE k = "MESHDIM" -> R(1)
         [] k = "FINITE" -> R(1)
         [] k = "TMAX" -> RMul(R(25), e.t_yr)
         [] k = "NTOUT" -> R(100)
         [] k = "NXOUT" -> R(2)
         [] k = "V_PL" -> Rat(1, 1000000000)
         [] k = "MU" -> R(30000)
         [] k = "SIGMA" -> R(100)
         [] k = "ACC" -> Rat(1, 10000000)
         [] k = "SOLVER" -> R(2)]
  ELSE
    [k \in {"MESHDIM", "TMAX", "NTOUT", "V_PL", "MU", "VS", "SIGMA", "ACC",
            "SOLVER"} |->
       CASE k = "MESHDIM" -> R(0)
         [] k = "TMAX" -> R(200)
         [] k = "NTOUT" -> R(100)
         [] k = "V_PL" -> Rat(1, 100000)
         [] k = "MU" -> R(2000)
         [] k = "VS" -> R(0)
         [] k = "SIGMA" -> R(5)
         [] k = "ACC" -> Rat(1, 10000000)
         [] k = "SOLVER" -> R(2)]

\* d with the keys of new assigned
Assign(d, new) == [k \in DOMAIN d |-> IF k \in DOMAIN new THEN new[k] ELSE d[k]]

\* set_dict = p.set_dict binds the name to the dictionary of the wrapper
\* created by p = qdyn(); from here on set_dict and p.set_dict are one
\* dictionary, and every assignment to a key of set_dict is an assignment
\* to the wrapper's settings.  The global parameters are assigned to it
Global ==
  /\ At("global")
  /\ set_dict' =
       [p_set EXCEPT !.G = Assign(@, GlobalValues(nb, env)),
                        !.FRICTION_MODEL = IF nb = "cns" THEN "CNS" ELSE @]
  /\ p_set' = set_dict'
  /\ pc' = pc + 1
  /\ UNCHANGED << reruns, prevCfg, maskF >>
  /\ UNCHANGED mlvars
  /\ UNCHANGED << nb, env, N, x, asp1, asp2, mesh_dict, W10_bash,
                  qdyn_in, alive, launches, disk, ot, ox, log,
                  prevF, prevA, varied >>

(***************************************************************************)
(* "Setting some (default) RSF parameter values".                          *)
(***************************************************************************)
\* V_SS given as the literal 1e-6 instead of V_PL
RSFValues_LiteralVss(n, sd) ==
  LET dc == Rat(4, 10000)
  IN  [k \in RSFKeys |->
         CASE k = "A" -> IF n = "single" THEN Rat(9, 1000) ELSE Rat(12, 1000)
           [] k = "B" -> Rat(1, 100)
           [] k = "DC" -> dc
           [] k = "V_SS" -> Rat(1, 1000000)
           [] k = "TH_0" -> RDiv(dc, sd.G["V_PL"])]

RSFValues(n, sd) ==
  LET dc == Rat(4, 10000)
  IN  [k \in RSFKeys |->
         CASE k = "A" -> IF n = "single" THEN Rat(9, 1000) ELSE Rat(12, 1000)
           [] k = "B" -> Rat(1, 100)
           [] k = "DC" -> dc
           [] k = "V_SS" -> sd.G["V_PL"]
           [] k = "TH_0" -> RDiv(dc, sd.G["V_PL"])]

RSFDefaults ==
  /\ At("rsf_defaults")
  /\ set_dict' = [set_dict EXCEPT !.SET_DICT_RSF = RSFValues(nb, set_dict)]
  /\ p_set' = set_dict'
  /\ pc' = pc + 1
  /\ UNCHANGED << reruns, prevCfg, maskF >>
  /\ UNCHANGED mlvars
  /\ UNCHANGED << nb, env, N, x, asp1, asp2, mesh_dict, W10_bash,
                  qdyn_in, alive, launches, disk, ot, ox, log,
                  prevF, prevA, varied >>


(***************************************************************************)
(* "Compute relevant length scales".                                       *)
(***************************************************************************)
ProcessZoneWidth(sd) ==
  RDiv(RMul(sd.G["MU"], sd.SET_DICT_RSF["DC"]),
       RMul(sd.SET_DICT_RSF["B"], sd.G["SIGMA"]))

LengthScalesSA ==
  /\ nb = "single" /\ At("length_scales")
  /\ LET Lb == ProcessZoneWidth(set_dict)
         Lc == RDiv(Lb, env.cab_ratio)
         Lasp == RMul(env.Lasp, Lc)
         L == RMul(env.L, Lasp)
     IN  env' = [env EXCEPT !.Lb = Lb, !.Lc = Lc, !.Lasp = Lasp, !.L = L]
  /\ pc' = pc + 1
  /\ UNCHANGED << reruns, prevCfg, maskF >>
  /\ UNCHANGED mlvars
  /\ UNCHANGED << nb, N, x, asp1, asp2, set_dict, p_set, mesh_dict, W10_bash,
                  qdyn_in, alive, launches, disk, ot, ox, log,
                  prevF, prevA, varied >>

AsperityLength1(f, L) == RMul(RMul(Rat(1, 2), f), L)
\* the second asperity sized with f instead of 1 - f
AsperityLength2_SameF(f, L) == RMul(RMul(Rat(1, 2), f), L)

AsperityLength2(f, L) == RMul(RMul(Rat(1, 2), RSub(R(1), f)), L)
AsperityCentre1(L) == RSub(RDiv(L, R(3)), RDiv(L, R(2)))
\* the second asperity centred at L / 3 of the fault instead of 2 L / 3
AsperityCentre2_Third(L) == RSub(RDiv(L, R(3)), RDiv(L, R(4)))

AsperityCentre2(L) == RSub(RDiv(RMul(R(2), L), R(3)), RDiv(L, R(2)))

LengthScalesDA ==
  /\ nb = "double" /\ At("length_scales")
  /\ LET Lb == ProcessZoneWidth(set_dict)
         Lc == RDiv(Lb, env.cab_ratio)
         L == RMul(env.L, Lc)
     IN  env' = [env EXCEPT !.Lb = Lb, !.Lc = Lc, !.L = L,
                            !.L1 = AsperityLength1(env.f, L),
                            !.L2 = AsperityLength2(env.f, L),
                            !.p1 = AsperityCentre1(L),
                            !.p2 = AsperityCentre2(L)]
  /\ pc' = pc + 1
  /\ UNCHANGED << reruns, prevCfg, maskF >>
  /\ UNCHANGED mlvars
  /\ UNCHANGED << nb, N, x, asp1, asp2, set_dict, p_set, mesh_dict, W10_bash,
                  qdyn_in, alive, launches, disk, ot, ox, log,
                  prevF, prevA, varied >>

(***************************************************************************)
(* "Find next power of two for number of mesh elements":                   *)
(*   N = int(np.power(2, np.ceil(np.log2(resolution * L / Lb))))           *)
(***************************************************************************)
RECURSIVE CeilLog2Up(_, _)
CeilLog2Up(r, k) == IF RLe(r, R(Pow2(k))) THEN k ELSE CeilLog2Up(r, k + 1)

RECURSIVE FloorLog2Inv(_, _)
FloorLog2Inv(r, j) ==
  IF RLe(RMul(r, R(Pow2(j + 1))), R(1)) THEN FloorLog2Inv(r, j + 1) ELSE j

\* np.floor in the place of np.ceil
CeilLog2_Floor(r) == FloorLog2Inv(RDiv(R(1), r), 0)

\* np.ceil(np.log2(r)) for r > 0
CeilLog2(r) == IF RLe(R(1), r) THEN CeilLog2Up(r, 0) ELSE -FloorLog2Inv(r, 0)

\* int(np.power(2, k)): a power below 1 is truncated to 0
IntPow2(k) == IF k >= 0 THEN Pow2(k) ELSE 0

MeshRatio(e) == RDiv(RMul(e.resolution, e.L), e.Lb)

ElementCount(e) == IntPow2(CeilLog2(MeshRatio(e)))

\* np.linspace(start, stop, num + 1)
Linspace_ExtraPoint(start, stop, num) ==
  LET step == RDiv(RSub(stop, start), R(num))
  IN  [i \in 0..num |-> RAdd(start, RMul(R(i), step))]

\* np.linspace(start, stop, num): start + i * step, as one fraction
Linspace(start, stop, num) ==
  LET step == RDiv(RSub(stop, start), R(num - 1))
  IN  [i \in 0..(num - 1) |->
         Rat(start.n * step.d + i * step.n * start.d, start.d * step.d)]

MeshCoordinates(L, num) ==
  Linspace(RNeg(RDiv(L, R(2))), RDiv(L, R(2)), num)

MeshCoordsSA ==
  /\ nb = "single" /\ At("mesh_coords")
  /\ N' = ElementCount(env)
  /\ x' = MeshCoordinates(env.L, N')
  /\ pc' = pc + 1
  /\ UNCHANGED << reruns, prevCfg, maskF >>
  /\ UNCHANGED mlvars
  /\ UNCHANGED << nb, env, asp1, asp2, set_dict, p_set, mesh_dict, W10_bash,
                  qdyn_in, alive, launches, disk, ot, ox, log,
                  prevF, prevA, varied >>

(***************************************************************************)
(* The masks asp1 and asp2: (x > lo) & (x < hi), on floats.  The floats    *)
(* of x and of the edges differ from the exact values by the rounding of   *)
(* np.linspace and of the edge arithmetic, which for coordinates of some   *)
(* hundred metres is below 1e-12; a node closer to an edge than            *)
(* 1/RoundingDen compares by rounding: its float is below, at or above     *)
(* the edge's float (cmp = -1, 0, 1).  A node farther away compares as     *)
(* the exact values do.  The arithmetic is deterministic: computed again   *)
(* with the same f, the masks are the same again.                          *)
(***************************************************************************)
Range(a) == {a[i] : i \in DOMAIN a}

RoundingDen == 1000000000

\* |a - b| <= 1/RoundingDen
Close(a, b) ==
  Abs(a.n * b.d - b.n * a.d) <= (a.d * b.d) \div RoundingDen

\* cmp is defined on the edges that have a node within rounding distance
FloatGt(a, b, cmp) ==
  IF b \in DOMAIN cmp /\ Close(a, b) THEN cmp[b] = 1 ELSE RLt(b, a)
FloatLt(a, b, cmp) ==
  IF b \in DOMAIN cmp /\ Close(a, b) THEN cmp[b] = -1 ELSE RLt(a, b)

Mask(xs, lo, hi, cmp) ==
  [i \in DOMAIN xs |-> FloatGt(xs[i], lo, cmp) /\ FloatLt(xs[i], hi, cmp)]

Half(a) == RDiv(a, R(2))

Edges(e) ==
  [lo1 |-> RSub(e.p1, Half(e.L1)), hi1 |-> RAdd(e.p1, Half(e.L1)),
   lo2 |-> RSub(e.p2, Half(e.L2)), hi2 |-> RAdd(e.p2, Half(e.L2))]

\* the edges that have a mesh node within rounding distance
TiedEdges(xs, e) ==
  {v \in Range(Edges(e)) : \E i \in DOMAIN xs : Close(xs[i], v)}

MeshCoordsDA ==
  /\ nb = "double" /\ At("mesh_coords")
  /\ LET num == ElementCount(env)
         xs == MeshCoordinates(env.L, num)
         ed == Edges(env)
     IN  /\ N' = num
         /\ x' = xs
         /\ \E cmp \in [TiedEdges(xs, env) -> {-1, 0, 1}] :
              /\ asp1' = Mask(xs, ed.lo1, ed.hi1, cmp)
              /\ asp2' = Mask(xs, ed.lo2, ed.hi2, cmp)
         /\ maskF = env.f => (asp1' = asp1 /\ asp2' = asp2)
         /\ maskF' = env.f
  /\ pc' = pc + 1
  /\ UNCHANGED << reruns, prevCfg >>
  /\ UNCHANGED mlvars
  /\ UNCHANGED << nb, env, set_dict, p_set, mesh_dict, W10_bash, qdyn_in,
                  alive, launches, disk, ot, ox, log, prevF, prevA,
                  varied >>

(***************************************************************************)
(* "Set mesh size and fault length".                                       *)
(***************************************************************************)
MeshSizeValues(num, L) ==
  [k \in {"N", "L", "IC"} |->
     CASE k = "N" -> R(num) [] k = "L" -> L [] k = "IC" -> R(num \div 2)]

MeshSize ==
  /\ At("mesh_size")
  /\ set_dict' = [set_dict EXCEPT !.G = Assign(@, MeshSizeValues(N, env.L))]
  /\ p_set' = set_dict'
  /\ pc' = pc + 1
  /\ UNCHANGED << reruns, prevCfg, maskF >>
  /\ UNCHANGED mlvars
  /\ UNCHANGED << nb, env, N, x, asp1, asp2, mesh_dict, W10_bash,
                  qdyn_in, alive, launches, disk, ot, ox, log,
                  prevF, prevA, varied >>

(***************************************************************************)
(* The CNS notebook's rheological parameters.                              *)
(***************************************************************************)
CNSValues(sd) ==
  [k \in CNSKeys |->
     CASE k = "H" -> Rat(5, 10)
       [] k = "PHI_C" -> Rat(3, 10)
       [] k = "A" -> R(1)
       [] k = "N" -> R(1)
       [] k = "THICKNESS" -> Rat(1, 10000)
       [] k = "TAU" -> RMul(Rat(5, 10), sd.G["SIGMA"])
       [] k = "PHI_INI" -> Rat(25, 100)]

CnsParams ==
  /\ At("cns_params")
  /\ set_dict' = [set_dict EXCEPT !.SET_DICT_CNS = CNSValues(set_dict)]
  /\ p_set' = set_dict'
  /\ pc' = pc + 1
  /\ UNCHANGED << reruns, prevCfg, maskF >>
  /\ UNCHANGED mlvars
  /\ UNCHANGED << nb, env, N, x, asp1, asp2, mesh_dict, W10_bash,
                  qdyn_in, alive, launches, disk, ot, ox, log,
                  prevF, prevA, varied >>

UpdatedH == Rat(3, 10)

\* the nested dictionary after set_dict["SET_DICT_CNS"]["H"] = 0.3, with
\* PHI_INI assigned as well
UpdatedCNS_AlsoPhiIni(cns) ==
  [cns EXCEPT !["H"] = UpdatedH, !["PHI_INI"] = UpdatedH]

\* the nested dictionary after set_dict["SET_DICT_CNS"]["H"] = 0.3
UpdatedCNS(cns) == [cns EXCEPT !["H"] = UpdatedH]

UpdateH ==
  /\ At("update_H")
  /\ set_dict' = [set_dict EXCEPT !.SET_DICT_CNS = UpdatedCNS(@)]
  /\ p_set' = set_dict'
  /\ pc' = pc + 1
  /\ UNCHANGED << reruns, prevCfg, maskF >>
  /\ UNCHANGED mlvars
  /\ UNCHANGED << nb, env, N, x, asp1, asp2, mesh_dict, W10_bash,
                  qdyn_in, alive, launches, disk, ot, ox, log,
                  prevF, prevA, varied >>


(***************************************************************************)
(* p.settings(set_dict): the wrapper takes the settings, which are its     *)
(* own dictionary.                                                         *)
(***************************************************************************)
Settings ==
  /\ At("settings")
  /\ p_set' = set_dict
  /\ log' = << "settings" >>
  /\ pc' = pc + 1
  /\ UNCHANGED << reruns, prevCfg, maskF >>
  /\ UNCHANGED mlvars
  /\ UNCHANGED << nb, env, N, x, asp1, asp2, set_dict, mesh_dict, W10_bash,
                  qdyn_in, alive, launches, disk, ot, ox, prevF,
                  prevA, varied >>

(***************************************************************************)
(* p.render_mesh(): "assigning default values to every element".  A        *)
(* spring-block (MESHDIM = 0) has one element.                             *)
(***************************************************************************)
FrictionDict(ps) ==
  IF ps.FRICTION_MODEL = "CNS" THEN ps.SET_DICT_CNS ELSE ps.SET_DICT_RSF

\* the number of elements taken from set_dict["N"] whatever MESHDIM is
MeshElements_FromN(ps) == ps.G["N"].n

MeshElements(ps) == IF ps.G["MESHDIM"] = R(0) THEN 1 ELSE ps.G["N"].n

RenderedMesh(ps) ==
  LET fd == FrictionDict(ps)
      n == MeshElements(ps)
  IN  [k \in DOMAIN fd |-> [i \in 0..(n - 1) |-> fd[k]]]

RenderMesh ==
  /\ At("render_mesh")
  /\ mesh_dict' = RenderedMesh(p_set)
  /\ log' = Append(log, "render_mesh")
  /\ pc' = pc + 1
  /\ UNCHANGED << reruns, prevCfg, maskF >>
  /\ UNCHANGED mlvars
  /\ UNCHANGED << nb, env, N, x, asp1, asp2, set_dict, p_set, W10_bash,
                  qdyn_in, alive, launches, disk, ot, ox, prevF,
                  prevA, varied >>

(***************************************************************************)
(* exp(-u) in fixed point, for u >= 0.                                     *)
(***************************************************************************)
FxOne == 2^13

ToFx(r) == (r.n * FxOne) \div r.d

RECURSIVE ExpSeries(_, _)
\* 1 - (v/k)(1 - (v/(k+1))(1 - ...)), ten factors deep, for 0 <= v < 1
ExpSeries(v, k) ==
  IF k > 10 THEN FxOne ELSE FxOne - (v * ExpSeries(v, k + 1)) \div (k * FxOne)

RECURSIVE TimesInvE(_, _)
\* y * e^(-m)
TimesInvE(y, m) == IF m = 0 THEN y ELSE TimesInvE((y * 3014) \div FxOne, m - 1)

ExpNeg(u) == TimesInvE(ExpSeries(u % FxOne, 1), u \div FxOne)

\* exp(-(t ** 6)) for a float t; beyond |t| = 3/2 the result is below one
\* fixed-point step
ExpNegSixth(t) ==
  LET a == ToFx([n |-> Abs(t.n), d |-> t.d])
      t2 == (a * a) \div FxOne
      t4 == (t2 * t2) \div FxOne
      t6 == (t4 * t2) \div FxOne
  IN  IF 2 * a >= 3 * FxOne THEN 0 ELSE ExpNeg(t6)

(***************************************************************************)
(* Step 3 of the single-asperity notebook:                                 *)
(*   A = B * (1 + cab_ratio * (1 - 2 * exp(-(2 * x / Lasp) ** 6)))         *)
(***************************************************************************)
\* the factor 2 of the exponential term left out
DirectEffectAt_NoFactor(xi, B, cab_ratio, Lasp) ==
  LET t == RDiv(RMul(R(2), xi), Lasp)
      ex == Rat(ExpNegSixth(t), FxOne)
  IN  RMul(B, RAdd(R(1), RMul(cab_ratio, RSub(R(1), ex))))

DirectEffectAt(xi, B, cab_ratio, Lasp) ==
  LET t == RDiv(RMul(R(2), xi), Lasp)
      ex == Rat(ExpNegSixth(t), FxOne)
  IN  RMul(B, RAdd(R(1), RMul(cab_ratio, RSub(R(1), RMul(R(2), ex)))))

DirectEffect(xs, B, cab_ratio, Lasp) ==
  [i \in DOMAIN xs |-> DirectEffectAt(xs[i], B, cab_ratio, Lasp)]

OverrideSA ==
  /\ nb = "single" /\ At("override")
  /\ mesh_dict' =
       [mesh_dict EXCEPT !["A"] =
          DirectEffect(x, set_dict.SET_DICT_RSF["B"], env.cab_ratio, env.Lasp)]
  /\ log' = Append(log, "override")
  /\ pc' = pc + 1
  /\ UNCHANGED << reruns, prevCfg, maskF >>
  /\ UNCHANGED mlvars
  /\ UNCHANGED << nb, env, N, x, asp1, asp2, set_dict, p_set, W10_bash,
                  qdyn_in, alive, launches, disk, ot, ox, prevF,
                  prevA, varied >>

(***************************************************************************)
(* Step 3 of the double-asperity notebook:                                 *)
(*   A[asp1 + asp2] = ab_ratio * B[asp1 + asp2]                            *)
(***************************************************************************)
MaskOr(m1, m2) == [i \in DOMAIN m1 |-> m1[i] \/ m2[i]]

\* the right-hand side read from A instead of B
MaskedAssign_FromA(A, B, mask, ab_ratio) ==
  [i \in DOMAIN A |-> IF mask[i] THEN RMul(ab_ratio, A[i]) ELSE A[i]]

MaskedAssign(A, B, mask, ab_ratio) ==
  [i \in DOMAIN A |-> IF mask[i] THEN RMul(ab_ratio, B[i]) ELSE A[i]]

OverrideDA ==
  /\ nb = "double" /\ At("override")
  /\ IF DOMAIN asp1 = DOMAIN mesh_dict["A"] /\ DOMAIN asp2 = DOMAIN asp1
     THEN /\ mesh_dict' =
               [mesh_dict EXCEPT !["A"] =
                  MaskedAssign(@, mesh_dict["B"], MaskOr(asp1, asp2),
                               env.ab_ratio)]
          /\ log' = Append(log, "override")
          /\ pc' = pc + 1
     ELSE \* IndexError: the execution stops
          /\ pc' = 0
          /\ UNCHANGED << mesh_dict, log >>
  /\ UNCHANGED << reruns, prevCfg, maskF >>
  /\ UNCHANGED mlvars
  /\ UNCHANGED << nb, env, N, x, asp1, asp2, set_dict, p_set, W10_bash,
                  qdyn_in, alive, launches, disk, ot, ox, prevF,
                  prevA, varied >>

(***************************************************************************)
(* p.write_input(): writes qdyn.in from the wrapper's settings and mesh.   *)
(***************************************************************************)
InputFile(ps, mesh) == [set |-> ps, mesh |-> mesh, written |-> TRUE]

WriteInput ==
  /\ At("write_input")
  /\ qdyn_in' = InputFile(p_set, mesh_dict)
  /\ log' = Append(log, "write_input")
  /\ pc' = pc + 1
  /\ UNCHANGED << reruns, prevCfg, maskF >>
  /\ UNCHANGED mlvars
  /\ UNCHANGED << nb, env, N, x, asp1, asp2, set_dict, p_set, mesh_dict,
                  W10_bash, alive, launches, disk, ot, ox, prevF,
                  prevA, varied >>

SetW10 ==
  /\ At("w10")
  /\ W10_bash' = IF nb = "cns" THEN "True" ELSE "False"
  /\ pc' = pc + 1
  /\ UNCHANGED << reruns, prevCfg, maskF >>
  /\ UNCHANGED mlvars
  /\ UNCHANGED << nb, env, N, x, asp1, asp2, set_dict, p_set, mesh_dict,
                  qdyn_in, alive, launches, disk, ot, ox, log,
                  prevF, prevA, varied >>

\* plt.plot(x, p.mesh_dict["A"] - p.mesh_dict["B"]): the first statement
\* after the configuration cell; the record of its re-executions ends here
PlotMesh ==
  /\ At("plot_mesh")
  /\ log' = Append(log, "plot_mesh")
  /\ pc' = pc + 1
  /\ reruns' = 0
  /\ prevCfg' = NoCfg
  /\ UNCHANGED << maskF >>
  /\ UNCHANGED mlvars
  /\ UNCHANGED << nb, env, N, x, asp1, asp2, set_dict, p_set, mesh_dict,
                  W10_bash, qdyn_in, alive, launches, disk, ot, ox,
                  prevF, prevA, varied >>

(***************************************************************************)
(* p.run(): launches the solver and returns when it has ended.  The        *)
(* solver reads qdyn.in and flushes its output to disk.                    *)
(***************************************************************************)
RunStart ==
  /\ At("run")
  /\ alive = 0
  /\ alive' = alive + 1
  /\ launches' = launches + 1
  /\ UNCHANGED << reruns, prevCfg, maskF >>
  /\ UNCHANGED mlvars
  /\ UNCHANGED << nb, pc, env, N, x, asp1, asp2, set_dict, p_set, mesh_dict,
                  W10_bash, qdyn_in, disk, ot, ox, log, prevF, prevA,
                  varied >>

RunReturn ==
  /\ At("run")
  /\ alive > 0
  /\ disk' = [run |-> launches, nt |-> MaxRecords]
  /\ alive' = alive - 1
  /\ log' = Append(log, "run")
  /\ pc' = pc + 1
  /\ UNCHANGED << reruns, prevCfg, maskF >>
  /\ UNCHANGED mlvars
  /\ UNCHANGED << nb, env, N, x, asp1, asp2, set_dict, p_set, mesh_dict,
                  W10_bash, qdyn_in, launches, ot, ox, prevF, prevA,
                  varied >>

(***************************************************************************)
(* p.read_output(): loads the output files into p.ot and p.ox.             *)
(***************************************************************************)
\* the table p.read_output makes of an output file
OutputTable(kind, file) == [kind |-> kind, run |-> file.run, nt |-> file.nt]

ReadOutput ==
  /\ At("read_output")
  /\ ot' = OutputTable("ot", disk)
  /\ ox' = OutputTable("ox", disk)
  /\ log' = Append(log, "read_output")
  /\ pc' = pc + 1
  /\ UNCHANGED << reruns, prevCfg, maskF >>
  /\ UNCHANGED mlvars
  /\ UNCHANGED << nb, env, N, x, asp1, asp2, set_dict, p_set, mesh_dict,
                  W10_bash, qdyn_in, alive, launches, disk, prevF, prevA,
                  varied >>

\* p.ot.head(10), the time-series plots and qdyn_plot.timeseries(p.ot)
ShowOt ==
  /\ At("head") \/ At("plot_ot")
  /\ log' = Append(log, "plot_ot")
  /\ pc' = pc + 1
  /\ UNCHANGED << reruns, prevCfg, maskF >>
  /\ UNCHANGED mlvars
  /\ UNCHANGED << nb, env, N, x, asp1, asp2, set_dict, p_set, mesh_dict,
                  W10_bash, qdyn_in, alive, launches, disk, ot, ox,
                  prevF, prevA, varied >>

\* qdyn_plot.slip_profile(p.ox, ...) and qdyn_plot.animation_slip(p.ox, ...)
ShowOx ==
  /\ At("plot_ox") \/ At("plot_anim")
  /\ log' = Append(log, "plot_ox")
  /\ pc' = pc + 1
  /\ UNCHANGED << reruns, prevCfg, maskF >>
  /\ UNCHANGED mlvars
  /\ UNCHANGED << nb, env, N, x, asp1, asp2, set_dict, p_set, mesh_dict,
                  W10_bash, qdyn_in, alive, launches, disk, ot, ox,
                  prevF, prevA, varied >>

(***************************************************************************)
(* The exercise of the double-asperity notebook: f is replaced by 1 - f    *)
(* and the notebook is executed again from the configuration cell.         *)
(***************************************************************************)
VaryF ==
  /\ nb = "double"
  /\ pc = Len(Prog(nb)) + 1
  /\ varied < MaxVary
  /\ prevF' = env.f
  /\ prevA' = mesh_dict["A"]
  /\ varied' = varied + 1
  /\ pc' = 1
  /\ UNCHANGED << reruns, prevCfg, maskF >>
  /\ UNCHANGED mlvars
  /\ UNCHANGED << nb, env, N, x, asp1, asp2, set_dict, p_set, mesh_dict,
                  W10_bash, qdyn_in, alive, launches, disk, ot, ox, log >>

(***************************************************************************)
(* The configuration cell of a rate-and-state notebook (from p = qdyn()    *)
(* to p.W10_bash = False) is executed again, unedited.                     *)
(***************************************************************************)
ExecuteAgain ==
  /\ nb \in {"single", "double"}
  /\ pc \in 2..(Len(Prog(nb)) + 1) /\ Prog(nb)[pc - 1] = "w10"
  /\ varied = 0
  /\ reruns < MaxRerun
  /\ prevCfg' = [L |-> env.L, Lasp |-> env.Lasp, N |-> N,
                  set_dict |-> set_dict, A |-> mesh_dict["A"]]
  /\ reruns' = reruns + 1
  /\ pc' = 1
  /\ UNCHANGED << nb, env, N, x, asp1, asp2, set_dict, p_set, mesh_dict,
                  W10_bash, qdyn_in, alive, launches, disk, ot, ox, log,
                  prevF, prevA, varied, maskF >>
  /\ UNCHANGED mlvars

Next ==
  \/ Instantiate
  \/ PredefineSA
  \/ PredefineDA
  \/ Global
  \/ RSFDefaults
  \/ CnsParams
  \/ LengthScalesSA
  \/ LengthScalesDA
  \/ MeshCoordsSA
  \/ MeshCoordsDA
  \/ MeshSize
  \/ Settings
  \/ RenderMesh
  \/ OverrideSA
  \/ OverrideDA
  \/ WriteInput
  \/ SetW10
  \/ PlotMesh
  \/ RunStart
  \/ RunReturn
  \/ ReadOutput
  \/ ShowOt
  \/ ShowOx
  \/ UpdateH
  \/ VaryF
  \/ ExecuteAgain

Spec == Init /\ [][Next]_<< vars, mlvars >>


(***************************************************************************)
(* The MNIST notebook (src/ML/1_mnist_basic.ipynb), one tag per code cell. *)
(* An image batch is modelled by its per-image shape, its dtype and one    *)
(* sample pixel.                                                           *)
(***************************************************************************)
\* the largest pixel value of the uint8 images; the scaling cell divides by it
PixelMax == 255
\* the images are ImageSide x ImageSide pixels
ImageSide == 28
\* the sample pixels of the training and the test batch differ by at most
\* PixelGap
PixelGap == 1

ProgML ==
  << "load_data", "plot_digits", "scale", "build", "compile", "fit",
     "evaluate", "plot_predictions", "exercise" >>

AtCell(tag) == cell \in 1..Len(ProgML) /\ ProgML[cell] = tag

Image(v) == [shape |-> << ImageSide, ImageSide >>, dtype |-> "uint8", px |-> R(v)]

Datasets ==
  UNION {{[train |-> Image(v), test |-> Image(w)] :
            w \in {u \in 0..PixelMax : Abs(u - v) <= PixelGap}} :
         v \in 0..PixelMax}

InitML ==
  /\ nb = "none"
  /\ pc = 0
  /\ FreshKernel
  /\ cell = 1
  /\ mnist \in Datasets
  /\ train_images = NoImage
  /\ test_images = NoImage
  /\ model = << >>
  /\ summary = NoSummary
  /\ epochs = 0
  /\ predictions = -1

\* (train_images, train_labels), (test_images, test_labels) = mnist.load_data()
LoadData ==
  /\ AtCell("load_data")
  /\ train_images' = mnist.train
  /\ test_images' = mnist.test
  /\ cell' = cell + 1
  /\ UNCHANGED << mnist, model, summary, epochs, predictions >>
  /\ UNCHANGED vars

\* the plot of the first 50 training digits
PlotDigits ==
  /\ AtCell("plot_digits")
  /\ cell' = cell + 1
  /\ UNCHANGED << mnist, train_images, test_images, model, summary, epochs,
                  predictions >>
  /\ UNCHANGED vars

\* images / 256.0
TrueDivide_By256(images, c) ==
  [images EXCEPT !.dtype = "float64", !.px = RDiv(@, R(c + 1))]

\* images / 255.0: element-wise true division, the result is a float array
TrueDivide(images, c) ==
  [images EXCEPT !.dtype = "float64", !.px = RDiv(@, R(c))]

ScalePixels ==
  /\ AtCell("scale")
  /\ train_images' = TrueDivide(train_images, PixelMax)
  /\ test_images' = TrueDivide(test_images, PixelMax)
  /\ cell' = cell + 1
  /\ UNCHANGED << mnist, model, summary, epochs, predictions >>
  /\ UNCHANGED vars

(***************************************************************************)
(* keras.Sequential: each layer is wired to the output of the previous     *)
(* one.  Flatten turns an image into a vector and has no parameters; a     *)
(* Dense layer has a weight matrix of (input size) x (units) entries and   *)
(* one bias per unit.                                                      *)
(***************************************************************************)
Flatten(input_shape) == [kind |-> "Flatten", input_shape |-> input_shape, units |-> 0]
Dense(units) == [kind |-> "Dense", input_shape |-> << >>, units |-> units]

\* the first model with 64 units in its hidden layer
FirstModel_Hidden64(shape) == << Flatten(shape), Dense(64), Dense(10) >>

FirstModel(shape) == << Flatten(shape), Dense(128), Dense(10) >>

ExerciseModel(shape) ==
  << Flatten(shape), Dense(64), Dense(32), Dense(16), Dense(10) >>

RECURSIVE Product(_)
Product(shape) == IF shape = << >> THEN 1 ELSE Head(shape) * Product(Tail(shape))

OutputSize(layer) ==
  IF layer.kind = "Flatten" THEN Product(layer.input_shape) ELSE layer.units

ParamCount(layer, inSize) ==
  IF layer.kind = "Dense" THEN inSize * layer.units + layer.units ELSE 0

BuiltLayer(layer, inSize) ==
  [kind |-> layer.kind,
   in |-> IF layer.kind = "Flatten" THEN Product(layer.input_shape) ELSE inSize,
   out |-> OutputSize(layer),
   params |-> ParamCount(layer, inSize)]

RECURSIVE Wire(_, _)
Wire(layers, inSize) ==
  IF layers = << >> THEN << >>
  ELSE LET b == BuiltLayer(Head(layers), inSize)
       IN  << b >> \o Wire(Tail(layers), b.out)

Sequential(layers) == Wire(layers, 0)

RECURSIVE TotalParams(_)
TotalParams(m) ==
  IF m = << >> THEN 0 ELSE Head(m).params + TotalParams(Tail(m))

\* model.summary(): the parameters of each layer and their total
Summary(m) ==
  [layers |-> [i \in 1..Len(m) |-> m[i].params], total |-> TotalParams(m)]

BuildModel ==
  /\ AtCell("build")
  /\ model' = Sequential(FirstModel(train_images.shape))
  /\ epochs' = 0
  /\ cell' = cell + 1
  /\ UNCHANGED << mnist, train_images, test_images, summary, predictions >>
  /\ UNCHANGED vars

\* model.compile(...); print(model.summary())
CompileModel ==
  /\ AtCell("compile")
  /\ summary' = Summary(model)
  /\ cell' = cell + 1
  /\ UNCHANGED << mnist, train_images, test_images, model, epochs,
                  predictions >>
  /\ UNCHANGED vars

\* model.fit(..., epochs=5)
Fit ==
  /\ AtCell("fit")
  /\ epochs' = epochs + 5
  /\ cell' = cell + 1
  /\ UNCHANGED << mnist, train_images, test_images, model, summary,
                  predictions >>
  /\ UNCHANGED vars

\* model.evaluate, model.predict: the predicted class is one of the output
\* units; which one depends on the randomly initialised weights
Evaluate ==
  /\ AtCell("evaluate")
  /\ \E c \in 0..(model[Len(model)].out - 1) : predictions' = c
  /\ cell' = cell + 1
  /\ UNCHANGED << mnist, train_images, test_images, model, summary, epochs >>
  /\ UNCHANGED vars

\* the plot of the first 50 test digits with their predictions
PlotPredictions ==
  /\ AtCell("plot_predictions")
  /\ cell' = cell + 1
  /\ UNCHANGED << mnist, train_images, test_images, model, summary, epochs,
                  predictions >>
  /\ UNCHANGED vars

\* the exercise cell: another model, compiled and trained for 10 epochs
Exercise ==
  /\ AtCell("exercise")
  /\ model' = Sequential(ExerciseModel(train_images.shape))
  /\ epochs' = 10
  /\ cell' = cell + 1
  /\ UNCHANGED << mnist, train_images, test_images, summary, predictions >>
  /\ UNCHANGED vars

NextML ==
  \/ LoadData
  \/ PlotDigits
  \/ ScalePixels
  \/ BuildModel
  \/ CompileModel
  \/ Fit
  \/ Evaluate
  \/ PlotPredictions
  \/ Exercise

SpecML == InitML /\ [][NextML]_<< vars, mlvars >>


(***************************************************************************)
(* Vocabulary of the properties.                                           *)
(***************************************************************************)
\* the statement tagged tag has just been executed
JustDid(tag) == pc \in 2..(Len(Prog(nb)) + 1) /\ Prog(nb)[pc - 1] = tag

\* the statement tagged tag was executed in this execution of the notebook
Past(tag) == \E i \in 1..Len(Prog(nb)) : i < pc /\ Prog(nb)[i] = tag

Count(seq, v) == Cardinality({i \in 1..Len(seq) : seq[i] = v})

\* the calls of the pyqdyn wrapper that make up one run
WrapperCalls == {"settings", "render_mesh", "write_input", "run", "read_output"}
WrapperOrder == << "settings", "render_mesh", "write_input", "run", "read_output" >>
IsWrapperCall(v) == v \in WrapperCalls
OutputUses == {"read_output", "plot_ot", "plot_ox"}

IsPowerOfTwo(n) == \E k \in 0..30 : n = 2^k

Reverse(a) == [i \in DOMAIN a |-> a[(N - 1) - i]]

Trues(m) == Cardinality({i \in DOMAIN m : m[i]})

Weakening(A, B) == {i \in DOMAIN A : RLt(A[i], B[i])}

(***************************************************************************)
(* C1.  In every run the wrapper calls happen in the order p.settings,     *)
(* p.render_mesh, (mesh override), p.write_input, p.run, p.read_output,    *)
(* plots: p.run is invoked only when qdyn.in holds the current settings    *)
(* and mesh, and p.read_output and the plots of p.ot / p.ox come only      *)
(* after the p.run of the same run has returned.                           *)
(***************************************************************************)
C1_WrapperOrder ==
  LET w == SelectSeq(log, IsWrapperCall)
  IN  /\ \A i \in 1..Len(w) : w[i] = WrapperOrder[IF i < 5 THEN i ELSE 5]
      /\ \A i \in 1..Len(log) :
           /\ log[i] = "override" => i > 1 /\ log[i - 1] = "render_mesh"
           /\ log[i] \in OutputUses => \E j \in 1..(i - 1) : log[j] = "run"
      /\ At("run") => qdyn_in = InputFile(set_dict, mesh_dict)
      /\ (\E i \in 1..Len(log) : log[i] \in OutputUses) =>
           /\ alive = 0
           /\ launches > 0
           /\ disk.run = launches
      /\ (\E i \in 1..Len(log) : log[i] \in {"plot_ot", "plot_ox"}) =>
           /\ ot.run = launches
           /\ ox.run = launches

C1_Witness ==
  /\ nb = "cns"
  /\ launches = 2
  /\ pc = Len(ProgCNS) + 1
  /\ log = << "settings", "render_mesh", "write_input", "run", "read_output",
              "plot_ot" >>

(***************************************************************************)
(* C2.  N is a power of two, the smallest one that is >= resolution*L/Lb,  *)
(* so the element size L/N does not exceed Lb/resolution; the tutorials'   *)
(* values give 1225 -> 2048 (single) and 525 -> 1024 (double).             *)
(***************************************************************************)
C2_NextPowerOfTwo ==
  (nb # "cns" /\ Past("mesh_coords")) =>
    LET r == MeshRatio(env)
    IN  /\ IsPowerOfTwo(N)
        /\ RLe(r, R(N))
        /\ N > 1 => RLt(Rat(N, 2), r)
        /\ RLe(RDiv(env.L, R(N)), RDiv(env.Lb, env.resolution))
        /\ (nb = "single" /\ env.resolution = R(7)) => r = R(1225) /\ N = 2048
        /\ (nb = "double" /\ env.resolution = R(7)) => r = R(525) /\ N = 1024
        /\ \A res \in 1..MaxResolution :
             LET e == [env EXCEPT !.resolution = R(res)]
                 re == MeshRatio(e)
                 ne == ElementCount(e)
             IN  /\ IsPowerOfTwo(ne)
                 /\ RLe(re, R(ne))
                 /\ ne > 1 => RLt(Rat(ne, 2), re)

C2_Witness ==
  /\ nb = "single"
  /\ JustDid("mesh_coords")
  /\ env.resolution = R(7)
  /\ N = 2048

(***************************************************************************)
(* C3.  After the override and when p.write_input is called, x and every   *)
(* array of the mesh have exactly N entries, and set_dict["N"] is that N.  *)
(***************************************************************************)
C3_ArrayLengths ==
  /\ (nb # "cns" /\ (JustDid("override") \/ JustDid("write_input"))) =>
       /\ N > 0
       /\ DOMAIN x = 0..(N - 1)
       /\ DOMAIN mesh_dict = RSFKeys
       /\ \A k \in DOMAIN mesh_dict : DOMAIN mesh_dict[k] = 0..(N - 1)
       /\ set_dict.G["N"] = R(N)
       /\ p_set.G["N"] = R(N)
  /\ (nb # "cns" /\ JustDid("write_input")) =>
       /\ qdyn_in.written
       /\ qdyn_in.set.G["N"] = R(N)
       /\ \A k \in RSFKeys : DOMAIN qdyn_in.mesh[k] = 0..(N - 1)

C3_Witness ==
  /\ nb = "double"
  /\ JustDid("write_input")
  /\ N = 1024
  /\ Trues(MaskOr(asp1, asp2)) > 0

(***************************************************************************)
(* C4.  Each run launches the solver exactly once; two solver processes    *)
(* are never alive together, and while one is alive the only step the      *)
(* notebook takes is the return of that p.run.                             *)
(***************************************************************************)
RunsPassed == Cardinality({i \in 1..Len(Prog(nb)) : i < pc /\ Prog(nb)[i] = "run"})
RunsPerExecution == Count(Prog(nb), "run")

C4_OneSolverAtATime ==
  /\ alive <= 1
  /\ alive > 0 => At("run")
  /\ Count(log, "run") + alive <= 1
  /\ (\E i \in 1..Len(log) : log[i] \in OutputUses) => Count(log, "run") = 1
  /\ launches = varied * RunsPerExecution + RunsPassed + alive

C4_BlockingRun ==
  /\ []C4_OneSolverAtATime
  /\ [][alive > 0 => (alive' = 0 /\ pc' = pc + 1 /\ log' = Append(log, "run"))]_vars

C4_Witness ==
  /\ nb = "cns"
  /\ alive = 1
  /\ launches = 2

(***************************************************************************)
(* C5.  Double asperity, after the override: an element selected by        *)
(* asp1 or asp2 has A = ab_ratio * B, so a - b < 0; every other element    *)
(* keeps the default A = 1.2e-2 > B = 1e-2; B and the other mesh arrays    *)
(* are as rendered.  A node strictly inside an asperity interval is        *)
(* selected, a node strictly outside both is not.                          *)
(***************************************************************************)
StrictlyInside(xi, lo, hi) == RLt(lo, xi) /\ RLt(xi, hi)
Outside(xi, lo, hi) == RLt(xi, lo) \/ RLt(hi, xi)

C5_AsperityPattern ==
  (nb = "double" /\ JustDid("override")) =>
    LET a0 == Rat(12, 1000)
        b0 == Rat(1, 100)
        weak == RMul(env.ab_ratio, b0)
        ed == Edges(env)
        rendered == RenderedMesh(p_set)
    IN  /\ mesh_dict["B"] = [i \in 0..(N - 1) |-> b0]
        /\ mesh_dict["A"] =
             [i \in 0..(N - 1) |-> IF asp1[i] \/ asp2[i] THEN weak ELSE a0]
        /\ RLt(weak, b0)
        /\ RLt(b0, a0)
        /\ \A i \in 0..(N - 1) :
             /\ (StrictlyInside(x[i], ed.lo1, ed.hi1)
                   \/ StrictlyInside(x[i], ed.lo2, ed.hi2)) => (asp1[i] \/ asp2[i])
             /\ (Outside(x[i], ed.lo1, ed.hi1) /\ Outside(x[i], ed.lo2, ed.hi2))
                   => ~(asp1[i] \/ asp2[i])
        /\ \A k \in RSFKeys \ {"A"} : mesh_dict[k] = rendered[k]

C5_Witness ==
  /\ nb = "double"
  /\ JustDid("override")
  /\ env.f = Rat(1, 2)
  /\ N = 1024
  /\ Trues(asp1) = 255
  /\ Trues(asp2) = 255
  /\ Cardinality(Weakening(mesh_dict["A"], mesh_dict["B"])) = 510

(***************************************************************************)
(* C6.  Single asperity, after the override: every A lies between          *)
(* (1 - cab_ratio) B and (1 + cab_ratio) B; a - b is negative at the       *)
(* centre of the fault and positive at both ends; the elements with        *)
(* a - b < 0 form one contiguous block centred on x = 0.                   *)
(***************************************************************************)
C6_SingleAsperity ==
  (nb = "single" /\ JustDid("override")) =>
    LET A == mesh_dict["A"]
        B == mesh_dict["B"]
        b == set_dict.SET_DICT_RSF["B"]
        neg == Weakening(A, B)
    IN  /\ \A i \in 0..(N - 1) :
             /\ RLe(RMul(RSub(R(1), env.cab_ratio), b), A[i])
             /\ RLe(A[i], RMul(RAdd(R(1), env.cab_ratio), b))
             /\ A[i] # B[i]
        /\ (N \div 2) \in neg
        /\ (N \div 2) - 1 \in neg
        /\ 0 \notin neg
        /\ (N - 1) \notin neg
        /\ \E lo \in 0..(N - 1) :
             /\ neg = lo..((N - 1) - lo)
             /\ RLt(x[lo], R(0))
             /\ x[(N - 1) - lo] = RNeg(x[lo])

C6_Witness ==
  /\ nb = "single"
  /\ JustDid("override")
  /\ N = 2048
  /\ Weakening(mesh_dict["A"], mesh_dict["B"]) = 831..1216

(***************************************************************************)
(* C7.  Double asperity: L1 = f L/2 and L2 = (1 - f) L/2 for every f of    *)
(* [0, 1], so L1 + L2 = L/2; with f = 0.5 the two lengths are equal and    *)
(* asp1 and asp2 select the same number of elements.                       *)
(***************************************************************************)
C7_AsperitySizes ==
  (nb = "double" /\ Past("length_scales")) =>
    LET La == Half(env.L)
    IN  /\ RLe(R(0), env.f) /\ RLe(env.f, R(1))
        /\ env.L1 = RMul(env.f, La)
        /\ env.L2 = RMul(RSub(R(1), env.f), La)
        /\ RAdd(env.L1, env.L2) = La
        /\ env.f = Rat(1, 2) =>
             /\ env.L1 = env.L2
             /\ Past("mesh_coords") => Trues(asp1) = Trues(asp2) /\ Trues(asp1) > 0

C7_Witness ==
  /\ nb = "double"
  /\ JustDid("mesh_coords")
  /\ env.f = Rat(1, 2)
  /\ env.L1 = R(225)
  /\ env.L2 = R(225)
  /\ Trues(asp1) = 255

(***************************************************************************)
(* C8.  Replacing f by 1 - f mirrors the fault: the array A of the         *)
(* execution with 1 - f is the reversal of the array of the execution      *)
(* with f.  As stated, for every f of [0, 1]:                              *)
(***************************************************************************)
C8_MirrorForEveryF ==
  (nb = "double" /\ varied > 0 /\ JustDid("override")) =>
    mesh_dict["A"] = Reverse(prevA)

(***************************************************************************)
(* C8, amended.  The array of 1 - f is the reversal of the array of f      *)
(* whenever every mesh node is farther than the rounding of the float      *)
(* arithmetic (1/RoundingDen) from every edge of an asperity interval.     *)
(***************************************************************************)
C8_MirrorWithoutTies ==
  (nb = "double" /\ varied > 0 /\ JustDid("override")
     /\ TiedEdges(x, env) = {}) =>
    /\ env.f = RSub(R(1), prevF)
    /\ DOMAIN prevA = DOMAIN mesh_dict["A"]
    /\ mesh_dict["A"] = Reverse(prevA)

C8_Witness ==
  /\ nb = "double"
  /\ varied = 1
  /\ JustDid("override")
  /\ TiedEdges(x, env) = {}
  /\ prevF = Rat(4, 10)
  /\ env.f = Rat(6, 10)
  /\ N = 1024
  /\ Trues(asp1) = 307
  /\ Trues(asp2) = 205

(***************************************************************************)
(* C9.  CNS notebook: the settings of the second p.write_input differ      *)
(* from those of the first in exactly one entry, SET_DICT_CNS["H"], which  *)
(* is 0.5 the first time and 0.3 the second.                               *)
(***************************************************************************)
C9_OnlyHChanges ==
  [][(nb = "cns" /\ qdyn_in' # qdyn_in) =>
       /\ qdyn_in'.set = set_dict
       /\ qdyn_in'.set.FRICTION_MODEL = "CNS"
       /\ IF ~qdyn_in.written
          THEN qdyn_in'.set.SET_DICT_CNS["H"] = Rat(5, 10)
          ELSE /\ qdyn_in.set.SET_DICT_CNS["H"] = Rat(5, 10)
               /\ qdyn_in'.set.SET_DICT_CNS["H"] = Rat(3, 10)
               /\ qdyn_in'.set =
                    [qdyn_in.set EXCEPT !.SET_DICT_CNS["H"] = Rat(3, 10)]]_vars

C9_Witness ==
  /\ nb = "cns"
  /\ JustDid("write_input")
  /\ launches = 1
  /\ qdyn_in.set.SET_DICT_CNS["H"] = Rat(3, 10)
  /\ qdyn_in.set.SET_DICT_CNS["PHI_C"] = Rat(3, 10)
  /\ qdyn_in.set.G["SIGMA"] = R(5)

(***************************************************************************)
(* C11.  CNS notebook: the mesh that p.render_mesh generates and           *)
(* p.write_input writes has exactly one element, in the first and in the   *)
(* second run, and set_dict["N"] is never assigned.                        *)
(***************************************************************************)
C11_OneElementMesh ==
  (nb = "cns" /\ Past("render_mesh")) =>
    /\ set_dict.G["N"] = Unset
    /\ p_set.G["N"] = Unset
    /\ p_set.G["MESHDIM"] = R(0)
    /\ DOMAIN mesh_dict = CNSKeys
    /\ \A k \in CNSKeys : DOMAIN mesh_dict[k] = {0}
    /\ qdyn_in.written =>
         /\ qdyn_in.set.G["N"] = Unset
         /\ \A k \in CNSKeys : DOMAIN qdyn_in.mesh[k] = {0}

C11_Witness ==
  /\ nb = "cns"
  /\ launches = 1
  /\ JustDid("write_input")
  /\ DOMAIN qdyn_in.mesh["H"] = {0}
  /\ qdyn_in.mesh["H"][0] = Rat(3, 10)
  /\ qdyn_in.set.G["N"] = Unset

(***************************************************************************)
(* C12.  The first MNIST model, Flatten(28 x 28) -> Dense(128) ->          *)
(* Dense(10), has 784 * 128 + 128 = 100,480 parameters in its first dense  *)
(* layer and 128 * 10 + 10 = 1,290 in its second, 101,770 in total; the    *)
(* input size of each dense layer is the output size of the layer before.  *)
(***************************************************************************)
PastCell(tag) == \E i \in 1..Len(ProgML) : i < cell /\ ProgML[i] = tag
JustDidCell(tag) == cell \in 2..(Len(ProgML) + 1) /\ ProgML[cell - 1] = tag

C12_ParameterCount ==
  (PastCell("build") /\ ~PastCell("exercise")) =>
    /\ Len(model) = 3
    /\ model[1].kind = "Flatten" /\ model[1].out = 784 /\ model[1].params = 0
    /\ model[2].kind = "Dense" /\ model[2].out = 128
    /\ model[2].params = 784 * 128 + 128
    /\ model[2].params = 100480
    /\ model[3].kind = "Dense" /\ model[3].out = 10
    /\ model[3].params = 128 * 10 + 10
    /\ model[3].params = 1290
    /\ \A i \in 2..Len(model) : model[i].in = model[i - 1].out
    /\ TotalParams(model) = 101770
    /\ PastCell("compile") =>
         /\ summary.total = 101770
         /\ summary.layers = << 0, 100480, 1290 >>

C12_Witness ==
  /\ JustDidCell("compile")
  /\ train_images.shape = << 28, 28 >>
  /\ Len(model) = 3
  /\ summary.total = 101770

(***************************************************************************)
(* C13.  After the scaling cell the stored value of a pixel v of 0..255    *)
(* is v / 255, in the training and in the test images: it lies in [0, 1],  *)
(* 0 is stored as 0 and 255 as 1, and the order of two pixel values is     *)
(* the order of their stored values.                                       *)
(***************************************************************************)
C13_PixelScaling ==
  PastCell("scale") =>
    LET v == mnist.train.px.n
        w == mnist.test.px.n
        sv == train_images.px
        sw == test_images.px
    IN  /\ v \in 0..255 /\ w \in 0..255
        /\ mnist.train.px.d = 1 /\ mnist.test.px.d = 1
        /\ sv = Rat(v, 255) /\ sw = Rat(w, 255)
        /\ RLe(R(0), sv) /\ RLe(sv, R(1))
        /\ RLe(R(0), sw) /\ RLe(sw, R(1))
        /\ (v = 0 <=> sv = R(0)) /\ (v = 255 <=> sv = R(1))
        /\ (w = 0 <=> sw = R(0)) /\ (w = 255 <=> sw = R(1))
        /\ (v < w <=> RLt(sv, sw))
        /\ (v = w <=> sv = sw)
        /\ train_images.shape = mnist.train.shape
        /\ test_images.shape = mnist.test.shape

C13_Witness ==
  /\ JustDidCell("scale")
  /\ mnist.train.px = R(255)
  /\ mnist.test.px = R(254)
  /\ train_images.px = R(1)
  /\ test_images.px = Rat(254, 255)

(***************************************************************************)
(* C15.  Executing the single- or double-asperity configuration cell       *)
(* again, unedited, gives the same L, N, IC, set_dict and mesh array A as  *)
(* the execution before: the cell starts from a fresh qdyn(), binds        *)
(* set_dict to its dictionary before assigning any key (so no key of the   *)
(* dictionary of the execution before survives) and re-assigns L (and      *)
(* Lasp) before scaling them in place, so nothing carries over.            *)
(***************************************************************************)
C15_ConfigurationIdempotent ==
  (nb \in {"single", "double"} /\ reruns > 0) =>
    /\ (Past("instantiate") /\ ~Past("global")) =>
         /\ p_set = DefaultSetDict
         /\ mesh_dict = NoMesh
    /\ JustDid("global") =>
         set_dict = [DefaultSetDict EXCEPT !.G = Assign(@, GlobalValues(nb, env))]
    /\ (Past("predefine") /\ ~Past("length_scales")) =>
         /\ env.L = IF nb = "single" THEN R(5) ELSE R(15)
         /\ nb = "single" => env.Lasp = R(7)
    /\ Past("length_scales") =>
         /\ env.L = prevCfg.L
         /\ env.Lasp = prevCfg.Lasp
    /\ Past("mesh_coords") => N = prevCfg.N
    /\ Past("mesh_size") =>
         \A k \in {"N", "L", "IC"} : set_dict.G[k] = prevCfg.set_dict.G[k]
    /\ Past("w10") =>
         /\ set_dict = prevCfg.set_dict
         /\ p_set = prevCfg.set_dict
         /\ mesh_dict["A"] = prevCfg.A
         /\ DOMAIN prevCfg.A = 0..(N - 1)

C15_Witness ==
  /\ nb = "double"
  /\ reruns = 1
  /\ JustDid("w10")
  /\ env.L = R(900)
  /\ N = 1024
  /\ set_dict.G["IC"] = R(512)
  /\ mesh_dict["A"] = prevCfg.A
  /\ Trues(MaskOr(asp1, asp2)) > 0

(***************************************************************************)
(* C16.  Rate-and-state notebooks: V_PL, MU, SIGMA, B and DC are assigned  *)
(* before they are read, and when p.settings and p.write_input are called  *)
(* V_SS = V_PL, TH_0 * V_PL = DC, Lb = MU DC / (B SIGMA) and               *)
(* Lc = Lb / (1 - ab_ratio).                                               *)
(***************************************************************************)
DerivedConsistent(sd) ==
  LET g == sd.G
      rsf == sd.SET_DICT_RSF
  IN  /\ \A k \in {"V_PL", "MU", "SIGMA"} : g[k] # Unset
      /\ \A k \in RSFKeys : rsf[k] # Unset
      /\ rsf["V_SS"] = g["V_PL"]
      /\ RMul(rsf["TH_0"], g["V_PL"]) = rsf["DC"]
      /\ env.Lb = RDiv(RMul(g["MU"], rsf["DC"]), RMul(rsf["B"], g["SIGMA"]))
      /\ env.Lc = RDiv(env.Lb, RSub(R(1), env.ab_ratio))
      /\ RLt(R(0), env.Lb) /\ RLt(env.Lb, env.Lc)

C16_DerivedSettings ==
  nb \in {"single", "double"} =>
    /\ At("rsf_defaults") => set_dict.G["V_PL"] # Unset
    /\ At("length_scales") =>
         /\ set_dict.G["MU"] # Unset /\ set_dict.G["SIGMA"] # Unset
         /\ set_dict.SET_DICT_RSF["B"] # Unset
         /\ set_dict.SET_DICT_RSF["DC"] # Unset
         /\ env.ab_ratio # Unset /\ env.cab_ratio # Unset
    /\ (At("settings") \/ At("write_input")) => DerivedConsistent(set_dict)
    /\ (JustDid("settings") \/ At("write_input")) => DerivedConsistent(p_set)
    /\ JustDid("write_input") => DerivedConsistent(qdyn_in.set)

C16_Witness ==
  /\ nb = "single"
  /\ JustDid("write_input")
  /\ env.Lb = R(12)
  /\ env.Lc = R(60)
  /\ qdyn_in.set.SET_DICT_RSF["V_SS"] = Rat(1, 1000000000)
  /\ qdyn_in.set.SET_DICT_RSF["TH_0"] = R(400000)

=============================================================================
